---- MODULE Spec2Model ----
(***************************************************************************)
(* Model of the kvs storage engine (src/src/lib.rs): a log-structured      *)
(* key-value store.  The directory is a set of numbered log files, each a  *)
(* sequence of serialized commands; the store keeps the id of the file it  *)
(* appends to, the set of ids it considers for compaction, and a cache     *)
(* from key to the location of the key's latest Set command.               *)
(***************************************************************************)
EXTENDS Integers, Sequences, FiniteSets, TLC

\* ------------------------------------------------------------------------
\* Program constants (lib.rs:16-17)
\* ------------------------------------------------------------------------
LOG_FILE_SIZE == 1048576

LOG_COMPACTION_COUNT == 10

\* ------------------------------------------------------------------------
\* Inputs.  Keys are one-byte strings.  The value "1" is a one-byte string;
\* "X" stands for a string of LOG_FILE_SIZE bytes, so that a single Set
\* command carrying it makes a log file longer than LOG_FILE_SIZE; "E" stands
\* for a string of LOG_FILE_SIZE - 17 bytes, with which the Set command of a
\* one-byte key is exactly LOG_FILE_SIZE bytes long.
\* ------------------------------------------------------------------------
Keys == {"a", "b", "c"}

Values == {"1", "X"}

\* The calls of set: every key with every value, and one key with "E".
SetCalls == (Keys \X Values) \cup {<<"a", "E">>}

None == "None"

\* Number of commands one behaviour appends after Init.
MaxAppends == 3

ByteLen(s) ==
    IF s = "X" THEN LOG_FILE_SIZE
    ELSE IF s = "E" THEN LOG_FILE_SIZE - 17
    ELSE 1

\* ------------------------------------------------------------------------
\* KvCommand (lib.rs:70-75) and its serialization, one JSON line per command
\* ------------------------------------------------------------------------
SetCmd(key, value) == <<"Set", key, value>>

RmCmd(key) == <<"Rm", key>>

\* Bytes written by writeln!(log_file, "{}", serde_json::to_string(&command)):
\*   {"Set":["k","v"]}\n  is 16 bytes plus the key and the value,
\*   {"Rm":"k"}\n         is 10 bytes plus the key.
SerializedLen(command) ==
    IF command[1] = "Set"
    THEN 16 + ByteLen(command[2]) + ByteLen(command[3])
    ELSE 10 + ByteLen(command[2])

\* Length in bytes of a log file (stream_len / metadata().len()).
RECURSIVE FileLen(_)
FileLen(log) ==
    IF log = <<>> THEN 0
    ELSE SerializedLen(Head(log)) + FileLen(Tail(log))

\* Byte offset at which the i-th command of a log file starts.
OffsetOf(log, i) == FileLen(SubSeq(log, 1, i - 1))

\* KvLocation (lib.rs:77-81)
KvLocation(file_id, offset) == [file_id |-> file_id, offset |-> offset]

\* ------------------------------------------------------------------------
\* Small helpers on functions with a varying domain
\* ------------------------------------------------------------------------
Empty == <<>>

Put(f, k, v) == [x \in DOMAIN f \cup {k} |-> IF x = k THEN v ELSE f[x]]

Drop(f, ks) == [x \in DOMAIN f \ ks |-> f[x]]

Max(S) == CHOOSE m \in S : \A x \in S : x <= m

Min(S) == CHOOSE m \in S : \A x \in S : m <= x

\* The store as a value: the directory and the fields of KvStore (lib.rs:63-68)
Store(disk, cache, file_ids, current_file_id) ==
    [disk |-> disk, cache |-> cache, file_ids |-> file_ids,
     current_file_id |-> current_file_id]

\* ------------------------------------------------------------------------
\* load_file_ids (lib.rs:276-299): the ids of the *.log files of the
\* directory, in the order of the sorted file names.  Names are the id
\* padded to nine digits (file_path, lib.rs:301-303), so the order of the
\* names is the order of the ids.
\* ------------------------------------------------------------------------
RECURSIVE load_file_ids_of(_)
load_file_ids_of(ids) ==
    IF ids = {} THEN <<>>
    ELSE <<Min(ids)>> \o load_file_ids_of(ids \ {Min(ids)})

load_file_ids(disk) == load_file_ids_of(DOMAIN disk)

\* ------------------------------------------------------------------------
\* update_cache (lib.rs:238-274): replay one log file into the cache.
\* offset starts at 0 and, after each line, becomes the stream position.
\* ------------------------------------------------------------------------
\* The result of a replay: the cache, and "Ok" or the error returned.
Replay(cache, err) == [cache |-> cache, err |-> err]

\* Mutant: offset is moved to the stream position before the command is
\* applied.
ApplyCommand_offset_after(cache, command, log_id, offset) ==
    IF command[1] = "Set"
    THEN Replay(Put(cache, command[2],
                    KvLocation(log_id, offset + SerializedLen(command))), "Ok")
    ELSE Replay(Drop(cache, {command[2]}), "Ok")

\* Mutant: an Rm command of a key that is not in the cache is an error, as in
\* KvStore::remove.
ApplyCommand_rm_checked(cache, command, log_id, offset) ==
    IF command[1] = "Set"
    THEN Replay(Put(cache, command[2], KvLocation(log_id, offset)), "Ok")
    ELSE IF command[2] \in DOMAIN cache
    THEN Replay(Drop(cache, {command[2]}), "Ok")
    ELSE Replay(cache, "Key not found")

\* One iteration of the loop (lib.rs:255-268): serde_json::from_str fails on
\* a line that is no command; Set inserts, Rm removes whether or not the key
\* is there, Get does nothing.
ApplyCommand(cache, command, log_id, offset) ==
    IF command[1] = "Set"
    THEN Replay(Put(cache, command[2], KvLocation(log_id, offset)), "Ok")
    ELSE IF command[1] = "Rm" THEN Replay(Drop(cache, {command[2]}), "Ok")
    ELSE IF command[1] = "Get" THEN Replay(cache, "Ok")
    ELSE Replay(cache, "SerdeError")

\* Mutant: offset is not moved past the line of an Rm command.
RECURSIVE ReadLines_rm_not_counted(_, _, _, _)
ReadLines_rm_not_counted(cache, log_id, lines, offset) ==
    IF lines = <<>> THEN Replay(cache, "Ok")
    ELSE LET applied == ApplyCommand(cache, Head(lines), log_id, offset)
         IN  IF applied.err # "Ok" THEN applied
             ELSE ReadLines_rm_not_counted(applied.cache, log_id, Tail(lines),
                     IF Head(lines)[1] = "Rm" THEN offset
                     ELSE offset + SerializedLen(Head(lines)))

\* The loop stops at the end of the file (read == 0) or at the first error.
RECURSIVE ReadLines(_, _, _, _)
ReadLines(cache, log_id, lines, offset) ==
    IF lines = <<>> THEN Replay(cache, "Ok")
    ELSE LET applied == ApplyCommand(cache, Head(lines), log_id, offset)
         IN  IF applied.err # "Ok" THEN applied
             ELSE ReadLines(applied.cache, log_id, Tail(lines),
                            offset + SerializedLen(Head(lines)))

\* File::open fails on a file that is not there.
update_cache(cache, log_id, disk) ==
    IF log_id \notin DOMAIN disk THEN Replay(cache, "IoError")
    ELSE ReadLines(cache, log_id, disk[log_id], 0)

RECURSIVE try_fold(_, _, _)
try_fold(cache, file_ids, disk) ==
    IF file_ids = <<>> THEN Replay(cache, "Ok")
    ELSE LET updated == update_cache(cache, Head(file_ids), disk)
         IN  IF updated.err # "Ok" THEN updated
             ELSE try_fold(updated.cache, Tail(file_ids), disk)

\* ------------------------------------------------------------------------
\* KvStore::open (lib.rs:94-111): the store, and "Ok" or the error returned
\* in its place.
\* ------------------------------------------------------------------------
\* Mutant: the number of files is taken for the highest id.
LastOr0_count(file_ids) == Len(file_ids)

\* Mutant: the first id of the listing is taken for the highest.
LastOr0_first(file_ids) == IF file_ids = <<>> THEN 0 ELSE file_ids[1]

LastOr0(file_ids) == IF file_ids = <<>> THEN 0 ELSE file_ids[Len(file_ids)]

open(disk) ==
    LET file_ids == load_file_ids(disk)
        folded   == try_fold(Empty, file_ids, disk)
    IN  [disk |-> disk,
         cache |-> folded.cache,
         file_ids |-> {file_ids[i] : i \in 1..Len(file_ids)},
         current_file_id |-> LastOr0(file_ids),
         err |-> folded.err]

\* ------------------------------------------------------------------------
\* KvStore::get (lib.rs:166-186)
\* ------------------------------------------------------------------------
Result(err, value) == [err |-> err, value |-> value]

\* seek(offset) then read_line then serde_json::from_str: the command that
\* starts at the offset, or no command when the offset is the end of the
\* file or falls inside a line.
CommandAt(log, offset) ==
    IF \E i \in 1..Len(log) : OffsetOf(log, i) = offset
    THEN log[CHOOSE i \in 1..Len(log) : OffsetOf(log, i) = offset]
    ELSE <<"Malformed">>

get(s, key) ==
    IF key \notin DOMAIN s.cache THEN Result("Ok", None)
    ELSE LET position == s.cache[key]
         IN  IF position.file_id \notin DOMAIN s.disk
             THEN Result("IoError", None)
             ELSE LET command == CommandAt(s.disk[position.file_id], position.offset)
                  IN  IF command[1] = "Malformed" THEN Result("SerdeError", None)
                      ELSE IF command[1] = "Set" THEN Result("Ok", command[3])
                      ELSE Result("Inconsistent backing storage", None)

\* ------------------------------------------------------------------------
\* KvStore::compact (lib.rs:217-235).  The outcomes of one call: remove_file
\* fails on a file that is not there, and the loop then stops with the ids
\* it visited before (in HashSet order) already deleted.
\* ------------------------------------------------------------------------
ActiveFileIds(cache) == {cache[k].file_id : k \in DOMAIN cache}

\* Mutant: the files are deleted and their ids stay in file_ids.
Compacted_ids_kept(s, removed, err) ==
    [store |-> Store(Drop(s.disk, removed), s.cache, s.file_ids, s.current_file_id),
     err |-> err]

Compacted(s, removed, err) ==
    [store |-> Store(Drop(s.disk, removed), s.cache, s.file_ids \ removed,
                     s.current_file_id),
     err |-> err]

\* Mutant: the file with the lowest id is never deleted.
compact_keeps_lowest(s) ==
    LET inactive == (s.file_ids \ ActiveFileIds(s.cache)) \ {Min(s.file_ids)}
    IN  {Compacted(s, inactive \cap DOMAIN s.disk, "Ok")}

\* Mutant: every known file but the one being written is taken as inactive.
compact_all_but_current(s) ==
    LET inactive == s.file_ids \ {s.current_file_id}
    IN  {Compacted(s, inactive \cap DOMAIN s.disk, "Ok")}

compact(s) ==
    LET inactive == s.file_ids \ ActiveFileIds(s.cache)
    IN  IF inactive \subseteq DOMAIN s.disk
        THEN {Compacted(s, inactive, "Ok")}
        ELSE {Compacted(s, removed, "IoError") :
                 removed \in SUBSET (inactive \cap DOMAIN s.disk)}

\* ------------------------------------------------------------------------
\* KvStore::set (lib.rs:122-153).  The outcomes of one call.
\* ------------------------------------------------------------------------
Outcome(store, err, rotated, compacted) ==
    [store |-> store, err |-> err, rotated |-> rotated, compacted |-> compacted]

\* OpenOptions::new().create(true).append(true).open(log_path)
CreateAppend(disk, file_id) ==
    IF file_id \in DOMAIN disk THEN disk ELSE Put(disk, file_id, <<>>)

\* Mutant: a file of exactly LOG_FILE_SIZE bytes rotates too.
Exceeds_or_equal(len) == len >= LOG_FILE_SIZE

Exceeds(len) == len > LOG_FILE_SIZE

\* Mutant: every rotation compacts.
CompactionDue_always(file_id) == file_id % 1 = 0

CompactionDue(file_id) == file_id % LOG_COMPACTION_COUNT = 0

set(s, key, value) ==
    LET cur      == s.current_file_id
        created  == CreateAppend(s.disk, cur)
        offset   == FileLen(created[cur])
        written  == Put(created, cur, Append(created[cur], SetCmd(key, value)))
        cache    == Put(s.cache, key, KvLocation(cur, offset))
        inserted == Store(written, cache, s.file_ids \cup {cur}, cur)
    IN  IF Exceeds(FileLen(written[cur]))
        THEN IF CompactionDue(cur)
             THEN {IF c.err = "Ok"
                   THEN Outcome([c.store EXCEPT !.current_file_id = cur + 1],
                                "Ok", TRUE, TRUE)
                   ELSE Outcome(c.store, c.err, TRUE, TRUE) : c \in compact(inserted)}
             ELSE {Outcome([inserted EXCEPT !.current_file_id = cur + 1],
                           "Ok", TRUE, FALSE)}
        ELSE {Outcome(Store(written, cache, s.file_ids, cur), "Ok", FALSE, FALSE)}

\* ------------------------------------------------------------------------
\* KvStore::remove (lib.rs:200-215).  cache.remove(&key) runs first; the log
\* file is then opened with append(true) and without create(true), which
\* fails when the file does not exist.
\* ------------------------------------------------------------------------
\* Mutant: the Rm command is written whether or not the key is in the cache.
remove_unchecked(s, key) ==
    LET cur == s.current_file_id
    IN  IF cur \in DOMAIN s.disk
        THEN Outcome(Store(Put(s.disk, cur, Append(s.disk[cur], RmCmd(key))),
                           Drop(s.cache, {key}), s.file_ids, cur),
                     "Ok", FALSE, FALSE)
        ELSE Outcome(Store(s.disk, Drop(s.cache, {key}), s.file_ids, cur),
                     "IoError", FALSE, FALSE)

\* Mutant: when the current file does not exist the Rm command goes to the
\* highest file of the directory.
remove_into_latest(s, key) ==
    IF key \in DOMAIN s.cache
    THEN LET cur == IF s.current_file_id \in DOMAIN s.disk \/ DOMAIN s.disk = {}
                    THEN s.current_file_id ELSE Max(DOMAIN s.disk)
         IN  IF cur \in DOMAIN s.disk
             THEN Outcome(Store(Put(s.disk, cur, Append(s.disk[cur], RmCmd(key))),
                                Drop(s.cache, {key}), s.file_ids, s.current_file_id),
                          "Ok", FALSE, FALSE)
             ELSE Outcome(Store(s.disk, Drop(s.cache, {key}), s.file_ids,
                                s.current_file_id),
                          "IoError", FALSE, FALSE)
    ELSE Outcome(s, "Key not found", FALSE, FALSE)

remove(s, key) ==
    IF key \in DOMAIN s.cache
    THEN LET cache == Drop(s.cache, {key})
             cur   == s.current_file_id
         IN  IF cur \in DOMAIN s.disk
             THEN Outcome(Store(Put(s.disk, cur, Append(s.disk[cur], RmCmd(key))),
                                cache, s.file_ids, cur),
                          "Ok", FALSE, FALSE)
             ELSE Outcome(Store(s.disk, cache, s.file_ids, cur),
                          "IoError", FALSE, FALSE)
    ELSE Outcome(s, "Key not found", FALSE, FALSE)

\* ------------------------------------------------------------------------
\* The state machine
\* ------------------------------------------------------------------------
VARIABLES
    disk,             \* the directory: log file id -> the commands of the file
    cache,            \* KvStore.cache: key -> KvLocation
    file_ids,         \* KvStore.file_ids
    current_file_id,  \* KvStore.current_file_id
    last,             \* the last call and what it returned
    appended,         \* commands appended since Init
    expect,           \* what the calls of this session that returned Ok say
                      \* each key holds (None: no value)
    closed,           \* ids of the files a set has rotated away from, ever
    closed_here,      \* ... and since the store was opened
    removed           \* ids of the files compact has deleted, ever

vars == <<disk, cache, file_ids, current_file_id, last, appended, expect, closed,
          closed_here, removed>>

Self == Store(disk, cache, file_ids, current_file_id)

\* deleted: the files that were in the directory and are not after the call
Call(op, key, value, out, result) ==
    [op |-> op, key |-> key, value |-> value, err |-> out.err, result |-> result,
     rotated |-> out.rotated, compacted |-> out.compacted,
     deleted |-> DOMAIN disk \ DOMAIN out.store.disk]

\* What get returns for every key, as a function
Contents(s) == [k \in Keys |-> get(s, k).value]

\* A directory left by an earlier session on an empty directory: the calls
\* of that session, and the store it ends in.
SeedCalls ==
    [i \in 1..8 |-> <<"a", "X">>] \o << <<"a", "1">>, <<"b", "X">>, <<"c", "X">> >>

RECURSIVE Replayed(_, _)
Replayed(s, calls) ==
    IF calls = <<>> THEN s
    ELSE Replayed((CHOOSE o \in set(s, Head(calls)[1], Head(calls)[2]) : TRUE).store,
                  Tail(calls))

Directories == {Empty, Replayed(Store(Empty, Empty, {}, 0), SeedCalls).disk}

Init ==
    \E dir \in Directories :
        /\ disk = dir
        /\ cache = open(dir).cache
        /\ file_ids = open(dir).file_ids
        /\ current_file_id = open(dir).current_file_id
        /\ last = [op |-> "open", key |-> None, value |-> None, err |-> "Ok",
                   result |-> None, rotated |-> FALSE, compacted |-> FALSE,
                   deleted |-> {}]
        /\ appended = 0
        /\ expect = Contents(open(dir))
        /\ closed = {}
        /\ closed_here = {}
        /\ removed = {}

Becomes(s) ==
    /\ disk' = s.disk
    /\ cache' = s.cache
    /\ file_ids' = s.file_ids
    /\ current_file_id' = s.current_file_id

\* A store is there to be called unless the last open returned an error.
Usable == ~(last.op = "open" /\ last.err # "Ok")

\* A new KvStore is opened on the directory (the previous one is dropped).
Open ==
    /\ IF open(disk).err = "Ok"
       THEN Becomes(open(disk))
       ELSE UNCHANGED <<disk, cache, file_ids, current_file_id>>
    /\ last' = Call("open", None, None,
                    Outcome(Self, open(disk).err, FALSE, FALSE), None)
    /\ expect' = Contents(open(disk))
    /\ closed_here' = {}
    /\ UNCHANGED <<appended, closed, removed>>

Set(key, value) ==
    /\ Usable
    /\ appended < MaxAppends
    /\ \E out \in set(Self, key, value) :
        /\ Becomes(out.store)
        /\ last' = Call("set", key, value, out, None)
        /\ appended' = appended + 1
        /\ expect' = IF out.err = "Ok" THEN [expect EXCEPT ![key] = value] ELSE expect
        /\ closed' = IF out.rotated /\ out.err = "Ok"
                     THEN closed \cup {current_file_id} ELSE closed
        /\ closed_here' = IF out.rotated /\ out.err = "Ok"
                          THEN closed_here \cup {current_file_id} ELSE closed_here
        /\ removed' = removed \cup (DOMAIN disk \ DOMAIN out.store.disk)

Get(key) ==
    /\ Usable
    /\ last' = Call("get", key, None,
                    Outcome(Self, get(Self, key).err, FALSE, FALSE),
                    get(Self, key).value)
    /\ UNCHANGED <<disk, cache, file_ids, current_file_id, appended, expect, closed,
                   closed_here, removed>>

Remove(key) ==
    /\ Usable
    /\ appended < MaxAppends
    /\ LET out == remove(Self, key)
       IN  /\ Becomes(out.store)
           /\ last' = Call("remove", key, None, out, None)
           /\ appended' = IF out.store.disk # disk THEN appended + 1 ELSE appended
           /\ expect' = IF out.err = "Ok" THEN [expect EXCEPT ![key] = None] ELSE expect
           /\ UNCHANGED <<closed, closed_here, removed>>

Next ==
    \/ Open
    \/ \E call \in SetCalls : Set(call[1], call[2])
    \/ \E key \in Keys : Get(key)
    \/ \E key \in Keys : Remove(key)

Spec == Init /\ [][Next]_vars

TypeOK ==
    /\ DOMAIN disk \subseteq Nat
    /\ DOMAIN cache \subseteq Keys
    /\ file_ids \subseteq Nat
    /\ current_file_id \in Nat

\* ------------------------------------------------------------------------
\* Claims
\* ------------------------------------------------------------------------

\* C1: within a session get(k) returns Ok with the value of the latest set(k)
\* that returned Ok, or None when the latest call on k that returned Ok is a
\* remove or there is none (a call that returned an error did not happen).
\* expect is kept by exactly that rule.
C1_GetReturnsLatest ==
    \A k \in Keys : get(Self, k) = Result("Ok", expect[k])

\* C2: recovery equivalence.  Opening the directory anew gives, for every
\* key, the result get gives now.  Stated for the states in which get agrees
\* with the calls that returned Ok, so that a remove that failed after
\* dropping its cache entry (C5) is not what breaks it.
C2_RecoveryEquivalence ==
    C1_GetReturnsLatest =>
        \A k \in Keys : get(open(disk), k) = get(Self, k)

\* C3: compaction safety.  In the state right after a set that ran compact:
\* every key of the cache resolves through get to the value of its latest
\* set, and every file compact deleted is off the disk, out of file_ids and
\* referenced by no cache entry.
C3_CompactionSafety ==
    (last.op = "set" /\ last.compacted) =>
        /\ \A k \in DOMAIN cache : get(Self, k) = Result("Ok", expect[k])
        /\ last.deleted \cap DOMAIN disk = {}
        /\ last.deleted \cap file_ids = {}
        /\ last.deleted \cap ActiveFileIds(cache) = {}

\* C3 witness: a compaction that deleted files and left a file with several
\* commands, more than one key being in the cache.
C3_Witness ==
    /\ last.op = "set" /\ last.compacted
    /\ last.deleted # {}
    /\ Cardinality(DOMAIN cache) >= 2
    /\ \E i \in DOMAIN disk : Len(disk[i]) >= 2

C5_RemovePresent ==
    [][(last'.op = "remove" /\ last'.key \in DOMAIN cache) =>
          /\ last'.err = "Ok"
          /\ cache' = Drop(cache, {last'.key})
          /\ current_file_id \in DOMAIN disk'
          /\ disk'[current_file_id] # <<>>
          /\ disk'[current_file_id][Len(disk'[current_file_id])] = RmCmd(last'.key)]_vars

\* C6: the index invariant.  Every cache entry names a file that exists and
\* an offset at which a Set command of that very key starts; get returns no
\* error for any key.
C6_IndexInvariant ==
    /\ \A k \in DOMAIN cache :
          /\ cache[k].file_id \in DOMAIN disk
          /\ CommandAt(disk[cache[k].file_id], cache[k].offset)[1] = "Set"
          /\ CommandAt(disk[cache[k].file_id], cache[k].offset)[2] = k
    /\ \A k \in Keys : get(Self, k).err = "Ok"

\* C6 witness: after open, a cache entry rebuilt by replay points at a Set
\* command that follows an Rm command in its file.
C6_Witness ==
    /\ last.op = "open"
    /\ \E k \in DOMAIN cache :
          LET log == disk[cache[k].file_id]
          IN  \E i \in 2..Len(log) :
                 /\ OffsetOf(log, i) = cache[k].offset
                 /\ log[i - 1][1] = "Rm"

\* C7: right after open, current_file_id is 0 and the cache is empty when
\* the directory holds no log file, and current_file_id is the highest id
\* of the directory otherwise; on a store with no log file get returns
\* Ok(None) for every key and creates no file.
C7_OpenCurrentId ==
    /\ [](last.op = "open" =>
             IF DOMAIN disk = {}
             THEN current_file_id = 0 /\ cache = Empty
             ELSE current_file_id = Max(DOMAIN disk))
    /\ []((last.op \in {"open", "get"} /\ DOMAIN disk = {}) =>
             \A k \in Keys : get(Self, k) = Result("Ok", None))
    /\ [][(last'.op = "get" /\ DOMAIN disk = {}) =>
             /\ last'.err = "Ok" /\ last'.result = None
             /\ DOMAIN disk' = {}]_vars

\* C7 witness: a store opened anew on a directory from which compaction has
\* deleted files, the highest file being one a set had rotated away from.
C7_Witness ==
    /\ last.op = "open"
    /\ closed \ DOMAIN disk # {}
    /\ current_file_id \in closed

\* C8: every id of file_ids names a file of the directory, and right after
\* open file_ids is exactly the set of the files of the directory.
C8_KnownIdsOnDisk ==
    /\ file_ids \subseteq DOMAIN disk
    /\ last.op = "open" => file_ids = DOMAIN disk

\* C8 witness: a reopen after two rotations and a compaction that deleted
\* a file one of these rotations had closed.
C8_Witness ==
    /\ last.op = "open"
    /\ Cardinality(closed) >= 2
    /\ closed \ DOMAIN disk # {}
    /\ file_ids # {}

\* C9 as claimed: every command is appended to the file current_file_id
\* names, and a file a set has rotated away from is never appended to again,
\* also after the store is reopened.
C9_ClosedFilesImmutable ==
    [][\A i \in DOMAIN disk' :
          (i \notin DOMAIN disk \/ disk'[i] # disk[i]) =>
              (i = current_file_id /\ i \notin closed)]_vars

\* C9 as amended: every command is appended to the file current_file_id
\* names, and a file a set of this session has rotated away from is not
\* appended to for the rest of the session.
C9_ClosedFilesImmutableInSession ==
    [][\A i \in DOMAIN disk' :
          (i \notin DOMAIN disk \/ disk'[i] # disk[i]) =>
              (i = current_file_id /\ i \notin closed_here)]_vars

\* C9 witness: after a rotation of this session a command has been appended,
\* without rotation, to the file that follows the closed one.
C9_Witness ==
    /\ last.op \in {"set", "remove"} /\ last.err = "Ok" /\ ~last.rotated
    /\ current_file_id - 1 \in closed_here
    /\ current_file_id \in DOMAIN disk
    /\ current_file_id - 1 \in DOMAIN disk

\* C10: compaction does not change what recovery rebuilds.  For a set that
\* ran compact, the cache rebuilt from the directory after the call equals
\* the cache rebuilt from the directory as it was after the write and
\* before the deletions.  Stated for the calls that start with the cache
\* equal to the replay of the directory, so that a remove that failed after
\* dropping its cache entry (C5) is not what breaks it.
C10_CompactionKeepsRecovery ==
    [][(last'.op = "set" /\ last'.compacted /\ cache = open(disk).cache) =>
          open(disk').cache =
              open([i \in DOMAIN disk \cup DOMAIN disk' |->
                       IF i \in DOMAIN disk' THEN disk'[i] ELSE disk[i]]).cache]_vars

\* C11: within a session (every step but open) current_file_id changes only
\* in set, by exactly 1, and exactly when the file written is longer than
\* LOG_FILE_SIZE after the write; the id of that file is then in file_ids.
\* A set that does not rotate, get and remove leave current_file_id and
\* file_ids alone, and current_file_id never decreases.
C11_RotationStep ==
    [][last'.op # "open" =>
          /\ last'.op = "set" =>
                IF FileLen(disk'[current_file_id]) > LOG_FILE_SIZE
                THEN /\ current_file_id' = current_file_id + 1
                     /\ current_file_id \in file_ids'
                ELSE UNCHANGED <<current_file_id, file_ids>>
          /\ last'.op \in {"get", "remove"} =>
                UNCHANGED <<current_file_id, file_ids>>
          /\ current_file_id' >= current_file_id]_vars

\* C11 witness: a set has left its file exactly LOG_FILE_SIZE bytes long and
\* has not rotated.
C11_Witness ==
    /\ last.op = "set" /\ ~last.rotated
    /\ current_file_id \in DOMAIN disk
    /\ FileLen(disk[current_file_id]) = LOG_FILE_SIZE

\* C12: compact runs only inside a set that rotates, and only when the id of
\* the file rotated away from is a multiple of LOG_COMPACTION_COUNT; such a
\* set does run it, and then increments current_file_id.  No other step
\* (open, get, remove, a set that does not rotate, a rotation at another id)
\* runs it, takes an id out of file_ids or takes a file off the directory.
C12_CompactionOnlyAtInterval ==
    [][/\ (\/ last'.compacted
           \/ ~(file_ids \subseteq file_ids')
           \/ ~(DOMAIN disk \subseteq DOMAIN disk')) =>
              /\ last'.op = "set" /\ last'.rotated
              /\ current_file_id % LOG_COMPACTION_COUNT = 0
              /\ current_file_id' = current_file_id + 1
       /\ (last'.op = "set" /\ last'.rotated
              /\ current_file_id % LOG_COMPACTION_COUNT = 0) => last'.compacted]_vars

\* C12 witness: the rotation away from file 10 has run compact and deleted
\* files, after a rotation away from file 9 that ran none.
C12_Witness ==
    /\ last.op = "set" /\ last.compacted /\ last.deleted # {}
    /\ current_file_id = LOG_COMPACTION_COUNT + 1
    /\ {LOG_COMPACTION_COUNT - 1, LOG_COMPACTION_COUNT} \subseteq closed_here

\* C13: compaction is exact at file granularity.  Right after a set that ran
\* compact, file_ids is exactly the set of the ids some cache entry names,
\* every id that was known and is named by no cache entry is off the
\* directory, every remaining file is what it was (the written file is what
\* it was plus the Set command), and the cache is what it was plus the entry
\* of the key set.
C13_CompactionExact ==
    [][(last'.op = "set" /\ last'.compacted /\ last'.err = "Ok") =>
          /\ file_ids' = ActiveFileIds(cache')
          /\ \A i \in (file_ids \cup {current_file_id}) \ ActiveFileIds(cache') :
                i \notin DOMAIN disk'
          /\ \A i \in DOMAIN disk' \ {current_file_id} :
                i \in DOMAIN disk /\ disk'[i] = disk[i]
          /\ disk'[current_file_id] =
                Append(CreateAppend(disk, current_file_id)[current_file_id],
                       SetCmd(last'.key, last'.value))
          /\ DOMAIN cache' = DOMAIN cache \cup {last'.key}
          /\ \A k \in DOMAIN cache \ {last'.key} : cache'[k] = cache[k]]_vars

\* C13 witness: a compaction has deleted files and kept a file in which one
\* command is live and another is not.
C13_Witness ==
    /\ last.op = "set" /\ last.compacted /\ last.deleted # {}
    /\ \E i \in DOMAIN disk \ {current_file_id - 1} :
          /\ Len(disk[i]) >= 2
          /\ \E j \in 1..Len(disk[i]) :
                /\ disk[i][j][1] = "Set"
                /\ \/ disk[i][j][2] \notin DOMAIN cache
                   \/ cache[disk[i][j][2]] # KvLocation(i, OffsetOf(disk[i], j))

\* C14: ids are never reused.  No file of the directory bears an id of a
\* file compact has deleted, whatever calls and reopenings followed the
\* deletion.
C14_IdsNeverReused ==
    removed \cap DOMAIN disk = {}

\* C14 witness: after a compaction that deleted files, a set has created a
\* new file.
C14_Witness ==
    /\ removed # {}
    /\ last.op = "set" /\ ~last.compacted
    /\ current_file_id \in DOMAIN disk \ closed
    /\ Len(disk[current_file_id]) = 1

\* C15: open returns no error on any directory the calls of the engine have
\* produced: the replay ends at the end of each file, and an Rm command of a
\* key that is not in the cache being rebuilt changes nothing.
C15_OpenSucceeds ==
    /\ open(disk).err = "Ok"
    /\ last.op = "open" => last.err = "Ok"

\* C15 witness: a store has been opened on a directory in which, after a
\* compaction, an Rm command is preceded by no Set command of its key.
C15_Witness ==
    /\ last.op = "open" /\ last.err = "Ok"
    /\ removed # {}
    /\ \E i \in DOMAIN disk : \E j \in 1..Len(disk[i]) :
          /\ disk[i][j][1] = "Rm"
          /\ \A i2 \in DOMAIN disk : \A j2 \in 1..Len(disk[i2]) :
                (i2 < i \/ (i2 = i /\ j2 < j)) =>
                    ~(disk[i2][j2][1] = "Set" /\ disk[i2][j2][2] = disk[i][j][2])

\* C16: whenever set appends a Set command to a file, the offset it stores in
\* the cache is the offset update_cache gives that command when it reads the
\* file, whatever Set and Rm commands the file holds before it.
C16_LiveOffsetIsReplayOffset ==
    [][(last'.op = "set" /\ last'.err = "Ok") =>
          LET key    == last'.key
              log_id == current_file_id
              read   == update_cache(Empty, log_id, disk')
          IN  /\ read.err = "Ok"
              /\ disk'[log_id] = Append(IF log_id \in DOMAIN disk
                                        THEN disk[log_id] ELSE <<>>,
                                        SetCmd(key, last'.value))
              /\ cache'[key] = read.cache[key]
              /\ cache'[key].offset = FileLen(disk'[log_id])
                                      - SerializedLen(SetCmd(key, last'.value))]_vars

\* C16 witness: set has appended to a file that holds an Rm command and a
\* Set command before the new one.
C16_Witness ==
    /\ last.op = "set" /\ last.err = "Ok" /\ ~last.rotated
    /\ LET log == disk[current_file_id]
       IN  /\ Len(log) >= 3
           /\ \E i, j \in 1..(Len(log) - 1) : log[i][1] = "Rm" /\ log[j][1] = "Set"

\* C17: a remove that returns an error leaves the cache and every file as
\* they were, so that get returns for its key what it returned before.
C17_RemoveFailureAtomic ==
    [][(last'.op = "remove" /\ last'.err # "Ok") =>
          /\ UNCHANGED <<cache, disk>>
          /\ get(Store(disk', cache', file_ids', current_file_id'), last'.key)
                = get(Self, last'.key)]_vars

\* C18: no id in the cache, in file_ids or of a file in the directory is
\* higher than current_file_id.
C18_CurrentIsHighest ==
    /\ \A key \in DOMAIN cache : cache[key].file_id <= current_file_id
    /\ \A file_id \in file_ids : file_id <= current_file_id
    /\ \A file_id \in DOMAIN disk : file_id <= current_file_id

\* C18 witness: after a rotation with compaction the cache refers to two
\* files or more, files have been deleted and the file of current_file_id is
\* not there yet.
C18_Witness ==
    /\ last.op = "set" /\ last.rotated /\ last.compacted
    /\ removed # {}
    /\ current_file_id \notin DOMAIN disk
    /\ Cardinality(ActiveFileIds(cache)) >= 2
    /\ current_file_id - 1 \in file_ids

====
